---- MODULE Spec2Model ----
(***************************************************************************)
(* Model of confnets/models/generalized_unet.py:                           *)
(*   - MergeSkipConnAndAutoCrop.forward (crop-to-match and additive merge) *)
(*   - AutoPad.forward (pad-to-match)                                      *)
(*   - MultiInputMultiOutputUNet.__init__ (parsing of output branches)     *)
(*   - MultiInputMultiOutputUNet.forward (encoder / base / decoder walk)   *)
(* Tensors are represented by their spatial shape (the axes after batch    *)
(* and channel) together with a label saying which stage produced them.    *)
(***************************************************************************)
EXTENDS Integers, Sequences, FiniteSets, TLC

VARIABLES mergeCall, padCall,
          args, cfg, cfg0, built,
          pc, level, inputs, current, encoded_states, outputs, log, fusions,
          result

vars == <<mergeCall, padCall, args, cfg, cfg0, built,
          pc, level, inputs, current, encoded_states, outputs, log, fusions,
          result>>

aligner_vars == <<mergeCall, padCall>>
ctor_vars == <<args, cfg, cfg0, built>>
fwd_vars == <<pc, level, inputs, current, encoded_states, outputs, log, fusions,
              result>>

----------------------------------------------------------------------------
(* Bounds *)

\* largest spatial extent of the shapes handed to the two aligners
MaxExt == 4

\* number of spatial axes (the dim property)
dim == 3

Axes == 1..dim
Shapes == [Axes -> 1..MaxExt]

\* shapes of the tensors handed to forward: inputs[0] and the auxiliary input
InShapes == [Axes -> {4, 5, 8}]
AuxShapes == [Axes -> {2, 3, 4}]
InputLists ==
    {<<a>> : a \in InShapes} \cup {<<a, b>> : a \in InShapes, b \in AuxShapes}

Min(a, b) == IF a <= b THEN a ELSE b
Max(a, b) == IF a >= b THEN a ELSE b

----------------------------------------------------------------------------
(* Python arithmetic and slicing used by the aligners *)

\* int(d/2): true division followed by truncation towards zero
IntHalf(d) == IF d >= 0 THEN d \div 2 ELSE -((-d) \div 2)

\* d % 2 in Python: the result has the sign of the divisor
PyMod2(d) == d % 2

\* x[slice(lft, rgt)] on an axis of length n: the kept index range
\* <<start, stop>> after Python's normalisation of negative and
\* out-of-range bounds
SliceRange(lft, rgt, n) ==
    LET norm(i) == IF i < 0 THEN Max(i + n, 0) ELSE Min(i, n)
        start == norm(lft)
        stop == norm(rgt)
    IN <<start, Max(start, stop)>>

SliceExtent(lft, rgt, n) == SliceRange(lft, rgt, n)[2] - SliceRange(lft, rgt, n)[1]

\* shape of a + b under torch broadcasting, "error" when the extents of an
\* axis differ and neither is 1
Broadcastable(a, b) == \A k \in Axes : a[k] = b[k] \/ a[k] = 1 \/ b[k] = 1

BroadcastShape(a, b) ==
    [k \in Axes |-> IF a[k] = 1 THEN b[k] ELSE IF b[k] = 1 THEN a[k] ELSE a[k]]

----------------------------------------------------------------------------
(* MergeSkipConnAndAutoCrop.forward *)

LeftCropOddUp(d) == IntHalf(d) + PyMod2(d)

LeftCrop(d) == IntHalf(d)

RightCropEvenOnly(d, shp) == shp - IntHalf(d)

RightCrop(d, shp) ==
    IF PyMod2(d) = 0 THEN shp - IntHalf(d) ELSE shp - (IntHalf(d) + 1)

NoCrop == [k \in Axes |-> 0]

\* tensor, skip_connection: spatial shapes.  The result records which
\* operand was sliced, the slice bounds, the shapes of both operands after
\* slicing and the outcome of the final addition.
MergeForward(tensor, skip_connection) ==
    IF tensor = skip_connection
    THEN [status |-> "ok", cropped |-> "none",
          left |-> NoCrop, right |-> NoCrop,
          start |-> NoCrop, stop |-> NoCrop,
          tensor |-> tensor, skip |-> skip_connection,
          sum |-> tensor]
    ELSE
      LET diff0 == [k \in Axes |-> skip_connection[k] - tensor[k]]
          crop_backbone == \A k \in Axes : diff0[k] >= 0
          orig_shape == IF crop_backbone THEN skip_connection ELSE tensor
          target_shape == IF crop_backbone THEN tensor ELSE skip_connection
          diff == [k \in Axes |-> orig_shape[k] - target_shape[k]]
          left_crops == [k \in Axes |-> LeftCrop(diff[k])]
          right_crops == [k \in Axes |-> RightCrop(diff[k], orig_shape[k])]
          sliced == [k \in Axes |->
                       SliceExtent(left_crops[k], right_crops[k], orig_shape[k])]
          new_skip == IF crop_backbone THEN sliced ELSE skip_connection
          new_tensor == IF crop_backbone THEN tensor ELSE sliced
      IN [status |-> IF Broadcastable(new_skip, new_tensor) THEN "ok" ELSE "error",
          cropped |-> IF crop_backbone THEN "skip" ELSE "tensor",
          left |-> left_crops, right |-> right_crops,
          start |-> [k \in Axes |->
                       SliceRange(left_crops[k], right_crops[k], orig_shape[k])[1]],
          stop |-> [k \in Axes |->
                       SliceRange(left_crops[k], right_crops[k], orig_shape[k])[2]],
          tensor |-> new_tensor, skip |-> new_skip,
          sum |-> IF Broadcastable(new_skip, new_tensor)
                  THEN BroadcastShape(new_skip, new_tensor) ELSE NoCrop]

----------------------------------------------------------------------------
(* AutoPad.forward *)

\* torch.nn.functional.pad(x, pad, mode='constant', value=0): the pair
\* (pad[2j-1], pad[2j]) pads the j-th axis counted from the last one
FPad(shape, pad) ==
    LET lft == [k \in Axes |-> pad[2 * (dim - k) + 1]]
        rgt == [k \in Axes |-> pad[2 * (dim - k) + 2]]
    IN [shape |-> [k \in Axes |-> shape[k] + lft[k] + rgt[k]],
        left |-> lft, right |-> rgt, fill |-> 0]

Reverse(s) == [i \in 1..Len(s) |-> s[Len(s) + 1 - i]]

\* pad = [int(d/2), int(d/2)] for every d of diff, in order
RECURSIVE PadList(_)
PadList(diff) ==
    IF diff = <<>> THEN <<>>
    ELSE <<IntHalf(Head(diff)), IntHalf(Head(diff))>> \o PadList(Tail(diff))

PadOrderUnreversed(diff) == PadList(diff)

PadOrder(diff) == PadList(Reverse(diff))

AutoPadForward(in_shape, out_shape) ==
    IF in_shape = out_shape
    THEN [status |-> "ok", shape |-> in_shape,
          left |-> NoCrop, right |-> NoCrop, fill |-> 0]
    ELSE
      LET diff == [k \in Axes |-> out_shape[k] - in_shape[k]]
      IN IF ~(\A k \in Axes : diff[k] >= 0)
         THEN [status |-> "error", shape |-> in_shape,
               left |-> NoCrop, right |-> NoCrop, fill |-> 0]
         ELSE IF ~(\A k \in Axes : PyMod2(diff[k]) = 0)
         THEN [status |-> "error", shape |-> in_shape,
               left |-> NoCrop, right |-> NoCrop, fill |-> 0]
         ELSE LET padded == FPad(in_shape, PadOrder(diff))
              IN [status |-> "ok", shape |-> padded.shape,
                  left |-> padded.left, right |-> padded.right,
                  fill |-> padded.fill]

----------------------------------------------------------------------------
(* Values of the variables a specification does not use *)

Unused == [state |-> "unused"]
NoCfg == [kind |-> "none"]
NoTensor == [shape |-> NoCrop, origin |-> "none", depth |-> 0]

CtorIdle ==
    /\ args = Unused
    /\ cfg = NoCfg
    /\ cfg0 = NoCfg
    /\ built = <<>>

FwdIdle ==
    /\ pc = "idle"
    /\ level = 0
    /\ inputs = <<>>
    /\ current = NoTensor
    /\ encoded_states = <<>>
    /\ outputs = <<>>
    /\ log = <<>>
    /\ fusions = <<>>
    /\ result = <<>>

----------------------------------------------------------------------------
(* MultiInputMultiOutputUNet.__init__: parsing of output_branches_specs *)

\* depth of the model: encoder_fmaps and decoder_fmaps have Depth + 1 entries
Depth == 2

\* number of numbered slots a dict-form configuration may use
MaxSlots == 2

\* longest list-form configuration
MaxBranches == 2

\* number of models constructed from one configuration object
MaxConstructions == 2

\* A branch spec is a Python dict: a function from the field names it
\* defines to their values.
EmptyDict == <<>>

\* dict.update: the argument's value wins for every key it defines
DictUpdateKeepOld(d, o) ==
    [f \in (DOMAIN d) \cup (DOMAIN o) |-> IF f \in DOMAIN d THEN d[f] ELSE o[f]]

DictUpdate(d, o) ==
    [f \in (DOMAIN d) \cup (DOMAIN o) |-> IF f \in DOMAIN o THEN o[f] ELSE d[f]]

\* str(idx) for the slot numbers in use
Str(i) == <<"0", "1", "2", "3", "4", "5">>[i + 1]

\* output_branches_specs as the caller holds it.  A list is the sequence
\* `list`; a dict has the optional entry "global" and entries under integer
\* keys (`ints`) and under string keys (`strs`).
ListCfg(l) ==
    [kind |-> "list", list |-> l, hasGlobal |-> FALSE, global |-> EmptyDict,
     ints |-> <<>>, strs |-> <<>>]

DictCfg(hasG, g, i, s) ==
    [kind |-> "dict", list |-> <<>>, hasGlobal |-> hasG,
     global |-> IF hasG THEN g ELSE EmptyDict, ints |-> i, strs |-> s]

\* len(output_branches_specs)
CfgLen(c) ==
    IF c.kind = "list" THEN Len(c.list)
    ELSE (IF c.hasGlobal THEN 1 ELSE 0)
         + Cardinality(DOMAIN c.ints) + Cardinality(DOMAIN c.strs)

\* output_branches_specs.pop("global"): the caller's dict loses the entry
PopGlobal(c) == [c EXCEPT !.hasGlobal = FALSE, !.global = EmptyDict]

\* the key under which slot i is looked up: i itself when present,
\* otherwise str(i)
SlotPresent(c, i) == i \in DOMAIN c.ints \/ Str(i) \in DOMAIN c.strs
SlotValue(c, i) == IF i \in DOMAIN c.ints THEN c.ints[i] ELSE c.strs[Str(i)]

\* lines 126-136: the list built from a dict whose "global" has been popped
CollectedSpecs(global_specs, c) ==
    LET nb_branches == CfgLen(c)
    IN [i \in 1..nb_branches |-> DictUpdate(global_specs, SlotValue(c, i - 1))]

AllSlotsPresent(c) == \A i \in 0..(CfgLen(c) - 1) : SlotPresent(c, i)

\* decoder_fmaps[depth] raises IndexError outside -(Depth+1)..Depth
FmapsIndexOk(d) == d >= -(Depth + 1) /\ d <= Depth

\* lines 142-145 and 151 for one branch
BranchOk(b) ==
    /\ "out_channels" \in DOMAIN b
    /\ "depth" \in DOMAIN b
    /\ FmapsIndexOk(b.depth)

\* construct_output_branch: the head built for a branch spec
ConstructOutputBranch(b) ==
    [depth |-> b.depth,
     out_channels |-> b.out_channels,
     activation |-> IF "activation" \in DOMAIN b THEN b.activation ELSE "Sigmoid"]

\* lines 139-150: depth -> positions of the branches declared at that depth,
\* in declaration order (positions count from 0)
RECURSIVE BranchIdxs(_, _)
BranchIdxs(specs, n) ==
    IF n = 0 THEN <<>>
    ELSE LET prev == BranchIdxs(specs, n - 1)
             d == specs[n].depth
         IN IF d \in DOMAIN prev
            THEN [prev EXCEPT ![d] = Append(prev[d], n - 1)]
            ELSE [x \in (DOMAIN prev) \cup {d} |->
                    IF x = d THEN <<n - 1>> ELSE prev[x]]

FailedModel(why) ==
    [status |-> "failed", error |-> why, specs |-> <<>>,
     output_branches |-> <<>>, output_branches_indices |-> <<>>,
     number_multiscale_inputs |-> 0, return_input |-> FALSE]

\* lines 138-155
BuildBranches(a, specs) ==
    IF \E i \in 1..Len(specs) : ~BranchOk(specs[i])
    THEN FailedModel("branch")
    ELSE [status |-> "ok", error |-> "",
          specs |-> specs,
          output_branches |-> [i \in 1..Len(specs) |-> ConstructOutputBranch(specs[i])],
          output_branches_indices |-> BranchIdxs(specs, Len(specs)),
          number_multiscale_inputs |-> a.number_multiscale_inputs,
          return_input |-> a.return_input]

\* line 122
NbBranchesCheck(c) == CfgLen(c) > 0

\* __init__ from line 119 on: the model built (or the failure) and the
\* caller's configuration object as the call leaves it
Construct(a, c) ==
    IF ~NbBranchesCheck(c)
    THEN [model |-> FailedModel("no branch"), cfg |-> c]
    ELSE IF c.kind = "list"
    THEN [model |-> BuildBranches(a, c.list), cfg |-> c]
    ELSE IF ~c.hasGlobal
    THEN [model |-> FailedModel("KeyError global"), cfg |-> c]
    ELSE LET global_specs == c.global
             popped == PopGlobal(c)
         IN IF ~AllSlotsPresent(popped)
            THEN [model |-> FailedModel("slot"), cfg |-> popped]
            ELSE [model |-> BuildBranches(a, CollectedSpecs(global_specs, popped)),
                  cfg |-> popped]

----------------------------------------------------------------------------
(* Constructing models from one caller-held configuration object *)

DefaultArgs == [number_multiscale_inputs |-> 1, return_input |-> FALSE]

OverrideChoices ==
    {[depth |-> 0, out_channels |-> 1],
     [depth |-> Depth, out_channels |-> 1, activation |-> "ReLU"],
     [out_channels |-> 1],
     [depth |-> 0, activation |-> "ReLU"]}

GlobalChoices ==
    {EmptyDict,
     [activation |-> "Sigmoid"],
     [activation |-> "Sigmoid", depth |-> 1],
     [activation |-> "Sigmoid", depth |-> 1, out_channels |-> 3]}

ListChoices ==
    OverrideChoices \cup {[depth |-> Depth + 1, out_channels |-> 1],
                          [depth |-> -1, out_channels |-> 1]}

PartialFns(K, V) == UNION {[S -> V] : S \in SUBSET K}

SeqsUpTo(S, n) == UNION {[1..m -> S] : m \in 0..n}

CtorCfgs ==
    {ListCfg(l) : l \in SeqsUpTo(ListChoices, MaxBranches)}
    \cup {DictCfg(TRUE, g, i, s) :
            g \in GlobalChoices,
            i \in PartialFns(0..(MaxSlots - 1), OverrideChoices),
            s \in PartialFns({Str(k) : k \in 0..(MaxSlots - 1)}, OverrideChoices)}
    \cup {DictCfg(FALSE, EmptyDict, i, <<>>) :
            i \in PartialFns(0..(MaxSlots - 1), OverrideChoices)}

InitCtor ==
    /\ mergeCall = Unused
    /\ padCall = Unused
    /\ args = DefaultArgs
    /\ cfg \in CtorCfgs
    /\ cfg0 = cfg
    /\ built = <<>>
    /\ FwdIdle

\* one more model is constructed from the configuration object
ConstructModel ==
    /\ Len(built) < MaxConstructions
    /\ pc = "idle"
    /\ built' = Append(built, Construct(args, cfg).model)
    /\ cfg' = Construct(args, cfg).cfg
    /\ UNCHANGED <<aligner_vars, args, cfg0, fwd_vars>>

NextCtor == ConstructModel

SpecCtor == InitCtor /\ [][NextCtor]_vars

----------------------------------------------------------------------------
(* MultiInputMultiOutputUNet.forward *)

\* default scale_factor, the same on every axis and at every depth
ScaleFactor == 2

\* number of stages the skeleton holds per role
NbEncoderModules == Depth + 1
NbDownsamplingModules == Depth
NbUpsamplingModules == Depth
NbMergeModules == Depth
NbDecoderModules == Depth

\* the model forward runs on: the one constructed last
Model == built[Len(built)]

Tensor(shape, origin, depth) == [shape |-> shape, origin |-> origin, depth |-> depth]

None == [set |-> FALSE]

\* shape-level effect of the stages forward composes
\* encoder, base and decoder stages are same-padded: the shape is kept
SamePadShape(shape) == shape
\* the downsampling stage is a valid convolution with kernel = stride =
\* scale factor; it fails on an axis shorter than the kernel
DownsampleOk(shape) == \A k \in Axes : shape[k] >= ScaleFactor
DownsampleShape(shape) == [k \in Axes |-> shape[k] \div ScaleFactor]
\* the upsampling stage scales every axis by the scale factor (no crop
\* window is configured)
UpsampleShape(shape) == [k \in Axes |-> shape[k] * ScaleFactor]

\* length of the zip at lines 166-167
NbEncodeSteps == Min(NbEncoderModules, Min(NbDownsamplingModules, Depth))

\* length of the zip at lines 180-182
NbDecodeSteps(states) ==
    Min(Len(states), Min(NbUpsamplingModules, Min(NbMergeModules, NbDecoderModules)))

\* the skip tensor zipped with depth j at lines 180-182
SkipForMirrored(states, j) == states[Len(states) - j]

SkipFor(states, j) == states[j + 1]

\* reversed(...) at line 180: the loop starts at the deepest zipped depth
FirstDecodeDepth(states) == NbDecodeSteps(states) - 1

\* lines 170-171: the two operands of torch.cat and its result.  features
\* is the current tensor's shape, aux the shape of inputs[depth].
FuseInputsPadAux(features, aux) ==
    LET p == AutoPadForward(aux, features)
    IN [status |-> IF p.status = "ok" /\ p.shape = features THEN "ok" ELSE "error",
        featuresAfter |-> features, auxAfter |-> p.shape, cat |-> features]

FuseInputs(features, aux) ==
    LET current_lvl_padded == AutoPadForward(features, aux)
    IN [status |-> IF current_lvl_padded.status = "ok"
                      /\ current_lvl_padded.shape = aux THEN "ok" ELSE "error",
        featuresAfter |-> current_lvl_padded.shape, auxAfter |-> aux,
        cat |-> current_lvl_padded.shape]

\* lines 187-189: the heads anchored at depth d write their positions
ScatterOutputs(outs, idxs, d, cur) ==
    IF d \in DOMAIN idxs
    THEN [i \in 1..Len(outs) |->
            IF \E n \in 1..Len(idxs[d]) : idxs[d][n] = i - 1
            THEN [set |-> TRUE, head |-> i - 1, input |-> cur]
            ELSE outs[i]]
    ELSE outs

LogEntry(state, depth, tin, skip, out) ==
    [state |-> state, depth |-> depth, tin |-> tin, skip |-> skip, out |-> out]

\* lines 159-165
ForwardCall ==
    /\ pc = "idle"
    /\ built # <<>>
    /\ Model.status = "ok"
    /\ \E ins \in InputLists :
         /\ inputs' = ins
         /\ IF Len(ins) # Model.number_multiscale_inputs
            THEN /\ pc' = "failed"
                 /\ current' = NoTensor
            ELSE /\ pc' = IF NbEncodeSteps > 0 THEN "enc" ELSE "base"
                 /\ current' = Tensor(ins[1], "input", 0)
    /\ level' = 0
    /\ encoded_states' = <<>>
    /\ outputs' = <<>>
    /\ log' = <<>>
    /\ fusions' = <<>>
    /\ result' = <<>>
    /\ UNCHANGED <<aligner_vars, ctor_vars>>

\* one iteration of the loop at lines 166-176
EncodeStep ==
    /\ pc = "enc"
    /\ LET depth == level
           fuse == depth > 0 /\ depth < Model.number_multiscale_inputs
           f == FuseInputs(current.shape, inputs[depth + 1])
           encIn == IF fuse THEN Tensor(f.cat, "cat", depth) ELSE current
           encoded == Tensor(SamePadShape(encIn.shape), "encoder", depth)
       IN IF fuse /\ f.status # "ok"
          THEN /\ pc' = "failed"
               /\ UNCHANGED <<level, current, encoded_states, log, fusions>>
          ELSE /\ fusions' = IF fuse
                             THEN Append(fusions,
                                         [depth |-> depth,
                                          features |-> current.shape,
                                          aux |-> inputs[depth + 1],
                                          featuresAfter |-> f.featuresAfter,
                                          auxAfter |-> f.auxAfter,
                                          cat |-> f.cat])
                             ELSE fusions
               /\ encoded_states' = Append(encoded_states, encoded)
               /\ log' = Append(log, LogEntry("ENCODING", depth, encIn, encoded, encoded))
               /\ IF ~DownsampleOk(encoded.shape)
                  THEN /\ pc' = "failed"
                       /\ UNCHANGED <<level, current>>
                  ELSE /\ current' = Tensor(DownsampleShape(encoded.shape),
                                            "downsample", depth)
                       /\ level' = depth + 1
                       /\ pc' = IF depth + 1 < NbEncodeSteps THEN "enc" ELSE "base"
    /\ UNCHANGED <<aligner_vars, ctor_vars, inputs, outputs, result>>

\* lines 177-179
BaseStep ==
    /\ pc = "base"
    /\ current' = Tensor(SamePadShape(current.shape), "base", Depth)
    /\ log' = Append(log, LogEntry("BOTTLENECK", Depth, current, NoTensor, current'))
    /\ outputs' = [i \in 1..Len(Model.output_branches) |-> None]
    /\ level' = FirstDecodeDepth(encoded_states)
    /\ pc' = IF NbDecodeSteps(encoded_states) > 0 THEN "dec" ELSE "ret"
    /\ UNCHANGED <<aligner_vars, ctor_vars, inputs, encoded_states, fusions, result>>

\* one iteration of the loop at lines 180-189
DecodeStep ==
    /\ pc = "dec"
    /\ LET depth == level
           skip_connection == SkipFor(encoded_states, depth)
           up == Tensor(UpsampleShape(current.shape), "upsample", depth)
           m == MergeForward(up.shape, skip_connection.shape)
           decoded == Tensor(SamePadShape(m.sum), "decoder", depth)
       IN IF m.status # "ok"
          THEN /\ pc' = "failed"
               /\ UNCHANGED <<level, current, outputs, log>>
          ELSE /\ current' = decoded
               /\ log' = Append(log, LogEntry("DECODING", depth, up, skip_connection,
                                              decoded))
               /\ outputs' = ScatterOutputs(outputs, Model.output_branches_indices,
                                            depth, decoded)
               /\ level' = depth - 1
               /\ pc' = IF depth > 0 THEN "dec" ELSE "ret"
    /\ UNCHANGED <<aligner_vars, ctor_vars, inputs, encoded_states, fusions, result>>

\* lines 191-194
ReturnStep ==
    /\ pc = "ret"
    /\ result' = IF Model.return_input
                 THEN outputs \o [i \in 1..Len(inputs) |-> Tensor(inputs[i], "input", i - 1)]
                 ELSE outputs
    /\ pc' = "done"
    /\ UNCHANGED <<aligner_vars, ctor_vars, level, inputs, current, encoded_states,
                   outputs, log, fusions>>

FwdBranchChoices == {[depth |-> d, out_channels |-> 1] : d \in 0..Depth}

FwdCfgs == {ListCfg(l) : l \in SeqsUpTo(FwdBranchChoices, MaxBranches) \ {<<>>}}

InitFwd ==
    /\ mergeCall = Unused
    /\ padCall = Unused
    /\ args \in [number_multiscale_inputs : {1, 2}, return_input : BOOLEAN]
    /\ cfg \in FwdCfgs
    /\ cfg0 = cfg
    /\ built = <<>>
    /\ FwdIdle

NextFwd ==
    \/ (built = <<>> /\ ConstructModel)
    \/ ForwardCall
    \/ EncodeStep
    \/ BaseStep
    \/ DecodeStep
    \/ ReturnStep

SpecFwd == InitFwd /\ [][NextFwd]_vars

----------------------------------------------------------------------------
(* One call of MergeSkipConnAndAutoCrop.forward on arbitrary shapes *)

InitMerge ==
    /\ mergeCall \in [state : {"called"}, tensor : Shapes, skip_connection : Shapes]
    /\ padCall = Unused
    /\ CtorIdle
    /\ FwdIdle

MergeReturn ==
    /\ mergeCall.state = "called"
    /\ mergeCall' = [state |-> "returned",
                     tensor |-> mergeCall.tensor,
                     skip_connection |-> mergeCall.skip_connection,
                     res |-> MergeForward(mergeCall.tensor, mergeCall.skip_connection)]
    /\ UNCHANGED <<padCall, ctor_vars, fwd_vars>>

NextMerge == MergeReturn

SpecMerge == InitMerge /\ [][NextMerge]_vars

(* One call of AutoPad.forward on arbitrary shapes *)

InitPad ==
    /\ padCall \in [state : {"called"}, to_be_padded : Shapes, out_shape : Shapes]
    /\ mergeCall = Unused
    /\ CtorIdle
    /\ FwdIdle

PadReturn ==
    /\ padCall.state = "called"
    /\ padCall' = [state |-> "returned",
                   to_be_padded |-> padCall.to_be_padded,
                   out_shape |-> padCall.out_shape,
                   res |-> AutoPadForward(padCall.to_be_padded, padCall.out_shape)]
    /\ UNCHANGED <<mergeCall, ctor_vars, fwd_vars>>

NextPad == PadReturn

SpecPad == InitPad /\ [][NextPad]_vars

----------------------------------------------------------------------------
(* Properties of construction *)

FirstBuilt == built[1]

\* the entries of the caller's dict other than "global"
NbSlots(c) == Cardinality(DOMAIN c.ints) + Cardinality(DOMAIN c.strs)
HasSlot(c, i) == i \in DOMAIN c.ints \/ Str(i) \in DOMAIN c.strs
Override(c, i) == IF i \in DOMAIN c.ints THEN c.ints[i] ELSE c.strs[Str(i)]

\* C5: a dict {"global": G, slots 0..n-1} expands to exactly n branch specs in
\* slot order, spec i holding every field of G and of O_i with O_i's value
\* winning; the construction fails when a slot of 0..n-1 is absent or a
\* resolved branch lacks out_channels or depth.
C5_ShorthandExpansion ==
    (built # <<>> /\ cfg0.kind = "dict" /\ cfg0.hasGlobal) =>
      LET n == NbSlots(cfg0)
          G == cfg0.global
          complete == \A i \in 0..(n - 1) : HasSlot(cfg0, i)
          fields(i) == (DOMAIN G) \cup (DOMAIN Override(cfg0, i))
      IN /\ FirstBuilt.status = "ok" =>
              /\ complete
              /\ Len(FirstBuilt.specs) = n
              /\ Len(FirstBuilt.output_branches) = n
              /\ \A i \in 0..(n - 1) :
                   LET spec == FirstBuilt.specs[i + 1]
                       O == Override(cfg0, i)
                   IN /\ DOMAIN spec = fields(i)
                      /\ \A f \in DOMAIN O : spec[f] = O[f]
                      /\ \A f \in (DOMAIN G) \ (DOMAIN O) : spec[f] = G[f]
                      /\ FirstBuilt.output_branches[i + 1].depth = spec.depth
                      /\ FirstBuilt.output_branches[i + 1].out_channels
                            = spec.out_channels
         /\ ~complete => FirstBuilt.status = "failed"
         /\ (complete /\ \E i \in 0..(n - 1) :
                            \/ "out_channels" \notin fields(i)
                            \/ "depth" \notin fields(i))
               => FirstBuilt.status = "failed"

C5_Witness ==
    /\ built # <<>>
    /\ cfg0.kind = "dict"
    /\ cfg0.hasGlobal
    /\ FirstBuilt.status = "ok"
    /\ Len(FirstBuilt.specs) = 2
    /\ DOMAIN cfg0.ints = {0}
    /\ DOMAIN cfg0.strs = {"1"}
    /\ "activation" \in DOMAIN cfg0.global
    /\ "depth" \in DOMAIN cfg0.global
    /\ FirstBuilt.specs[1].activation = "Sigmoid"
    /\ FirstBuilt.specs[2].activation = "ReLU"
    /\ FirstBuilt.specs[2].depth # cfg0.global.depth

\* C6 (as claimed): every successfully constructed model holds at least one
\* output head and a non-empty depth-to-indices map.
C6_AtLeastOneBranch ==
    \A m \in 1..Len(built) :
      built[m].status = "ok" =>
         /\ Len(built[m].output_branches) >= 1
         /\ DOMAIN built[m].output_branches_indices # {}

\* C7 (as claimed): construction leaves the caller's configuration object as
\* it was, and a second construction from it gives what the first gave.
C7_ConfigNotMutated ==
    /\ cfg = cfg0
    /\ Len(built) >= 2 => built[2] = built[1]

----------------------------------------------------------------------------
(* Properties of the forward pass *)

Started == pc \in {"enc", "base", "dec", "ret", "done", "failed"}

\* C1 (as claimed): when every branch depth lies in 0..Depth, a forward call
\* that returns gives, in position i, head i applied to the decoder tensor of
\* branch i's depth; no position is left None.
C1_AllOutputsComputed ==
    (pc = "done" /\ \A i \in 1..Len(Model.specs) : Model.specs[i].depth \in 0..Depth) =>
      /\ Len(result) >= Len(Model.output_branches)
      /\ \A i \in 1..Len(Model.output_branches) :
           /\ result[i].set
           /\ result[i].head = i - 1
           /\ result[i].input.origin = "decoder"
           /\ result[i].input.depth = Model.specs[i].depth

C10_StateOrder ==
    Started =>
      /\ Len(log) <= 2 * Depth + 1
      /\ pc \in {"ret", "done"} => Len(log) = 2 * Depth + 1
      /\ pc = "done" => Len(encoded_states) = Depth
      /\ \A i \in 1..Len(log) :
           /\ i <= Depth =>
                /\ log[i].state = "ENCODING"
                /\ log[i].depth = i - 1
                /\ i <= Len(encoded_states)
                /\ encoded_states[i] = log[i].skip
                /\ log[i].skip = Tensor(log[i].tin.shape, "encoder", i - 1)
                /\ i < Len(log) =>
                     IF log[i + 1].tin.origin = "cat"
                     THEN log[i + 1].tin.shape = inputs[i + 1]
                     ELSE log[i + 1].tin = Tensor(DownsampleShape(log[i].skip.shape),
                                                  "downsample", i - 1)
           /\ i = Depth + 1 =>
                /\ log[i].state = "BOTTLENECK"
                /\ log[i].tin.origin = "downsample"
           /\ i > Depth + 1 =>
                /\ log[i].state = "DECODING"
                /\ log[i].depth = 2 * Depth + 1 - i
                /\ log[i].skip = log[log[i].depth + 1].skip
                /\ log[i].skip.depth = log[i].depth
                /\ log[i].tin = Tensor(UpsampleShape(log[i - 1].out.shape),
                                       "upsample", log[i].depth)
                /\ log[i].out.origin = "decoder"
                /\ log[i].out.depth = log[i].depth
      /\ \A k \in 1..Len(outputs) :
           outputs[k].set =>
             \E i \in 1..Len(log) : /\ log[i].state = "DECODING"
                                    /\ log[i].out = outputs[k].input

C10_Witness ==
    /\ pc = "done"
    /\ Len(log) = 2 * Depth + 1
    /\ \E i \in 1..Len(log) : /\ log[i].state = "DECODING"
                              /\ log[i].tin.shape # log[i].skip.shape
    /\ \E k \in 1..Len(result) : result[k].set

----------------------------------------------------------------------------
(* Properties of the two aligners *)

Geq(a, b) == \A k \in Axes : a[k] >= b[k]
MixedSign(a, b) == (\E k \in Axes : a[k] > b[k]) /\ (\E k \in Axes : b[k] > a[k])
MergeReturned == mergeCall.state = "returned"
PadReturned == padCall.state = "returned"

\* C2: when one operand is >= the other on every axis, the larger operand is
\* the one sliced, the smaller keeps its shape, both have the smaller shape
\* afterwards, and on every axis the slice starts at floor(diff/2) and keeps
\* exactly the smaller extent.
C2_CropToMatch ==
    (MergeReturned /\ (Geq(mergeCall.tensor, mergeCall.skip_connection)
                       \/ Geq(mergeCall.skip_connection, mergeCall.tensor))) =>
      LET t == mergeCall.tensor
          s == mergeCall.skip_connection
          r == mergeCall.res
          larger == IF Geq(s, t) THEN s ELSE t
          smaller == IF Geq(s, t) THEN t ELSE s
      IN /\ r.status = "ok"
         /\ r.tensor = smaller
         /\ r.skip = smaller
         /\ r.sum = smaller
         /\ t # s => /\ r.cropped = (IF Geq(s, t) THEN "skip" ELSE "tensor")
                     /\ \A k \in Axes :
                          /\ r.left[k] = (larger[k] - smaller[k]) \div 2
                          /\ r.right[k] - r.left[k] = smaller[k]
                          /\ r.start[k] = r.left[k]
                          /\ r.stop[k] = r.right[k]
         /\ t = s => r.cropped = "none"

C2_Witness ==
    /\ MergeReturned
    /\ mergeCall.res.cropped = "tensor"
    /\ mergeCall.res.status = "ok"
    /\ Geq(mergeCall.tensor, mergeCall.skip_connection)
    /\ \E k \in Axes : mergeCall.tensor[k] - mergeCall.skip_connection[k] = 3

\* C4 (as claimed): whenever the operands disagree in sign across axes the
\* merge fails and returns nothing.
C4_MixedSignFails ==
    (MergeReturned /\ MixedSign(mergeCall.tensor, mergeCall.skip_connection)) =>
      mergeCall.res.status = "error"

\* C8 (as claimed): for an odd difference the number of cells removed before
\* the kept window is one more than the number removed after it.
C8_ExtraUnitLeft ==
    (MergeReturned /\ mergeCall.res.cropped # "none"
        /\ (Geq(mergeCall.tensor, mergeCall.skip_connection)
            \/ Geq(mergeCall.skip_connection, mergeCall.tensor))) =>
      LET r == mergeCall.res
          larger == IF r.cropped = "skip" THEN mergeCall.skip_connection
                    ELSE mergeCall.tensor
          smaller == IF r.cropped = "skip" THEN mergeCall.tensor
                     ELSE mergeCall.skip_connection
      IN \A k \in Axes :
           (larger[k] - smaller[k]) % 2 = 1 =>
              r.start[k] = (larger[k] - r.stop[k]) + 1

\* C8 (amended): for an odd difference the extra unit is removed on the
\* right: the number of cells removed after the kept window is one more than
\* the number removed before it; for an even difference both are equal.
C8_ExtraUnitRight ==
    (MergeReturned /\ mergeCall.res.cropped # "none"
        /\ (Geq(mergeCall.tensor, mergeCall.skip_connection)
            \/ Geq(mergeCall.skip_connection, mergeCall.tensor))) =>
      LET r == mergeCall.res
          larger == IF r.cropped = "skip" THEN mergeCall.skip_connection
                    ELSE mergeCall.tensor
          smaller == IF r.cropped = "skip" THEN mergeCall.tensor
                     ELSE mergeCall.skip_connection
      IN \A k \in Axes :
           /\ (larger[k] - smaller[k]) % 2 = 1 =>
                 larger[k] - r.stop[k] = r.start[k] + 1
           /\ (larger[k] - smaller[k]) % 2 = 0 =>
                 larger[k] - r.stop[k] = r.start[k]

C8_Witness ==
    /\ MergeReturned
    /\ mergeCall.res.cropped = "skip"
    /\ \E k \in Axes : /\ mergeCall.skip_connection[k] - mergeCall.tensor[k] = 3
                       /\ mergeCall.res.start[k] = 1
                       /\ mergeCall.res.stop[k] = mergeCall.skip_connection[k] - 2

\* C3: a target >= the source with even differences yields exactly the
\* target shape, axis k receiving diff[k]/2 zero cells on each side; an odd
\* difference or a smaller target axis makes the call fail.
C3_PadToMatch ==
    PadReturned =>
      LET i == padCall.to_be_padded
          o == padCall.out_shape
          r == padCall.res
          fits == Geq(o, i) /\ \A k \in Axes : (o[k] - i[k]) % 2 = 0
      IN /\ fits => /\ r.status = "ok"
                    /\ r.shape = o
                    /\ r.fill = 0
                    /\ \A k \in Axes : /\ r.left[k] = (o[k] - i[k]) \div 2
                                       /\ r.right[k] = (o[k] - i[k]) \div 2
         /\ ~fits => r.status = "error"

C3_Witness ==
    /\ PadReturned
    /\ padCall.res.status = "ok"
    /\ padCall.res.shape = padCall.out_shape
    /\ padCall.res.left[1] = 1
    /\ padCall.res.left[dim] = 0

====
